---- MODULE Spec2Model ----
(***************************************************************************)
(* Model of ioSPI/tem_upload.py: class TEMUpload, which uploads the output *)
(* of a TEM simulation to a tree of nodes kept by a remote service         *)
(* (OSF.io).  Every HTTP request is one atomic step of the client that     *)
(* issues it; the remote tree is shared by all clients.                    *)
(*                                                                         *)
(* GUIDs are modelled as the index of the node in the sequence `nodes`     *)
(* (creation order, which is also the order of a child listing).  A path   *)
(* is the sequence of its components, so that Path(p).name is the last     *)
(* one.  A mapping (dict) is a function whose domain is its key set.       *)
(***************************************************************************)
EXTENDS Integers, Sequences, FiniteSets, TLC

VARIABLES
    nodes,      \* the remote tree: nodes[g] is the node whose GUID is g
    session,    \* session[p]: the TEMUpload object of client p
    pc,         \* pc[p]: the request client p issues next ("idle": none)
    op,         \* op[p]: the public method client p is running
    local,      \* local[p]: the local variables of the running method
    calls,      \* calls[p]: requests issued since the last public call
    result,     \* result[p]: how the last public call ended
    datasets,   \* history: dataset nodes returned to upload_dataset_from_tem
    resolved,   \* history: what get_molecule_guid returned, call after call
    nruns,      \* nruns[p]: public calls made by client p so far
    handles     \* handles[p]: the iterations of the running post_files
                \* whose file is still open

vars == <<nodes, session, pc, op, local, calls, result, datasets, resolved, nruns,
          handles>>

----------------------------------------------------------------------------
(* Bounds of the model *)

\* public method calls per client
MaxRuns == 2
\* longest file list handed to post_files
MaxFiles == 2

----------------------------------------------------------------------------
(* Inputs *)

Procs == {1, 2}
\* the clients that run under Spec: one sequential process
SeqProcs == {1}

Tokens == {"tok"}
\* node 1 stands for the default data node "24htr", node 2 for another one
DefaultGuid == 1
RootGuids == {1, 2}

PdbKeywords == {"1ABC", "2XYZ"}
MicrographKeywords == {"series7", "m2"}
\* a parameter mapping is the sequence of its (key, value) items, in
\* insertion order; keys are distinct, values need not be
SimDicts ==
    { <<>>,
      << <<"voltage", 300>>, <<"dose", 50>> >>,
      << <<"a", 1>>, <<"b", 2>> >>,
      << <<"a", 1>>, <<"b", 1>> >> }
H5Files == { <<"out", "particles.h5">> }
FilePaths == { <<"out", "particles.h5">>, <<"meta.star">> }

TemSim(pdb_keyword, micrograph_keyword, sim_dict, h5_file) ==
    [pdb_keyword |-> pdb_keyword, micrograph_keyword |-> micrograph_keyword,
     sim_dict |-> sim_dict, h5_file |-> h5_file]

\* the simulation records handed to upload_dataset_from_tem: every keyword
\* and every parameter mapping above occurs, and two records differ in
\* their parameters only
TemSims ==
    { TemSim("1ABC", "series7", << <<"voltage", 300>>, <<"dose", 50>> >>, <<"out", "particles.h5">>),
      TemSim("1ABC", "series7", <<>>, <<"out", "particles.h5">>),
      TemSim("1ABC", "m2", << <<"a", 1>>, <<"b", 2>> >>, <<"out", "particles.h5">>),
      TemSim("2XYZ", "series7", << <<"a", 1>>, <<"b", 1>> >>, <<"out", "particles.h5">>),
      TemSim("2XYZ", "m2", <<>>, <<"out", "particles.h5">>) }

RECURSIVE SeqsUpTo(_, _)
SeqsUpTo(S, n) ==
    IF n = 0 THEN { <<>> }
    ELSE LET shorter == SeqsUpTo(S, n - 1)
         IN  shorter \cup { Append(s, x) : s \in {t \in shorter : Len(t) = n - 1}, x \in S }

FileLists == SeqsUpTo(FilePaths, MaxFiles)

\* a request that got no HTTP response (requests raises ConnectionError)
NoResponse == 0
HTTP_CREATED == 201

LivenessOutcomes == {200, 304, 401, NoResponse}
ListOutcomes == {200, 304, 404, NoResponse}
CreateOutcomes == {201, 304, 403, NoResponse}
UploadOutcomes == {200, 201, 404, NoResponse}

\* children the data nodes have before any client runs: titles are
\* pairwise distinct among the children of one parent
InitialChildren ==
    { <<>>,
      << [parent |-> 1, title |-> "1ABC"] >>,
      << [parent |-> 2, title |-> "1ABC"] >>,
      << [parent |-> 1, title |-> "2XYZ"], [parent |-> 1, title |-> "1ABC"] >> }

----------------------------------------------------------------------------
(* Pure helpers *)

\* faulty variant: raise_for_status is never called
RaiseForStatus_Never(status) == FALSE

\* faulty variant: only server errors (5xx) raise
RaiseForStatus_5xx(status) == status >= 500 /\ status < 600

\* requests.Response.raise_for_status: HTTPError for 4xx and 5xx only
RaiseForStatus(status) == status >= 400 /\ status < 600

\* response.json()["data"]: the service sends a JSON document with a "data"
\* member with its 2xx answers only; reading it from any other body raises
HasData(status) == status >= 200 /\ status < 300

\* the service creates the node exactly when it answers 2xx
ServerCreates(status) == status >= 200 /\ status < 300

\* self.headers = {"Authorization": f"Bearer {token}"}
BearerHeader(token) == "Bearer " \o token

\* faulty variant: the request is sent without the header
RequestHeaders_None(sess) == ""

\* headers=self.headers of requests.get, requests.post and requests.put
RequestHeaders(sess) == sess.headers

BaseUrl == "https://api.osf.io/v2/"

\* faulty variant: the two keywords in the other order
DatasetLabel_Swapped(tem_sim) == tem_sim.micrograph_keyword \o tem_sim.pdb_keyword

DatasetLabel(tem_sim) == tem_sim.pdb_keyword \o tem_sim.micrograph_keyword

MoleculeLabel(tem_sim) == tem_sim.pdb_keyword

\* faulty variant: the values in reverse order
generate_tags_from_tem_Reversed(tem_sim) ==
    [i \in 1..Len(tem_sim.sim_dict) |->
        tem_sim.sim_dict[Len(tem_sim.sim_dict) + 1 - i][2]]

\* generate_tags_from_tem: list(sim_dict.values()), in insertion order
generate_tags_from_tem(tem_sim) ==
    [i \in 1..Len(tem_sim.sim_dict) |-> tem_sim.sim_dict[i][2]]

\* Path(file_path_string).name
PathName(path) == path[Len(path)]

\* the "data" array of GET nodes/{g}/children/: the children of g, in order
RECURSIVE ListChildren(_, _, _)
ListChildren(ns, g, n) ==
    IF n = 0 THEN <<>>
    ELSE LET rest == ListChildren(ns, g, n - 1)
         IN  IF ns[n].parent = g
             THEN Append(rest, [id |-> n, title |-> ns[n].title])
             ELSE rest

DictSet(d, k, v) == [x \in (DOMAIN d) \cup {k} |-> IF x = k THEN v ELSE d[x]]

\* faulty variant: the first child of a title is kept
RECURSIVE DictComprehension_FirstWins(_)
DictComprehension_FirstWins(children) ==
    IF children = <<>> THEN <<>>
    ELSE DictSet(DictComprehension_FirstWins(Tail(children)),
                 Head(children).title, Head(children).id)

\* {child title: child id for child in children}: a later child overwrites
RECURSIVE DictComprehension(_)
DictComprehension(children) ==
    IF children = <<>> THEN <<>>
    ELSE LET n == Len(children)
         IN  DictSet(DictComprehension(SubSeq(children, 1, n - 1)),
                     children[n].title, children[n].id)

\* faulty variant: the node is created without looking at the listing
LabelMissing_Always(existing_molecules, molecule_label) == TRUE

\* molecule_label not in existing_molecules
LabelMissing(existing_molecules, molecule_label) ==
    molecule_label \notin DOMAIN existing_molecules

\* faulty variant: the default data node instead of the configured one
MoleculeParent_Default(sess) == DefaultGuid

\* parent of the node get_molecule_guid creates
MoleculeParent(sess) == sess.data_node_guid

\* faulty variant: the dataset node is created under the data node
DatasetParent_Root(sess, l) == sess.data_node_guid

\* parent of the dataset node upload_dataset_from_tem creates
DatasetParent(sess, l) == l.molecule_guid

\* faulty variant: any 2xx status is a successful upload
UploadFailed_Non2xx(status) == ~(status >= 200 /\ status < 300)

\* response.status_code != 201 is a failed upload
UploadFailed(status) == status # HTTP_CREATED

\* faulty variant: the loop is left at the first failed upload
LoopNext_Break(i, n, status) == IF status # HTTP_CREATED THEN n + 1 ELSE i + 1

\* the for loop of post_files goes on to the next path whatever the status
LoopNext(i, n, status) == i + 1

\* faulty variant: nothing is uploaded
upload_file_paths_None(tem_sim) == <<>>

\* upload_file_paths = [tem_sim.output_path_dict["h5_file"]]
upload_file_paths(tem_sim) == << tem_sim.h5_file >>

\* the node created by a POST that the service accepts
\* open(file_path, "rb") in iteration i, never closed by post_files: the
\* file stays open next to those still open
OpenFile(open, i) == open \cup {i}

\* A file that nothing references any more is closed when the interpreter
\* finalizes it: at once under reference counting, at the next collection
\* under a tracing collector. Of the files h that are no longer referenced,
\* either all were finalized during the step or none was
StillOpen(h) == {{}, h}

NewNode(parent, title, has_tags, tags) ==
    [parent |-> parent, title |-> title, category |-> "data", public |-> TRUE,
     has_tags |-> has_tags, tags |-> tags]

\* faulty variant: "if tags:", which leaves an empty list out
CarriesTags_NonEmpty(has_tags, tags) == has_tags /\ tags # <<>>

\* if tags is not None: the request body gets the "tags" attribute
CarriesTags(has_tags, tags) == has_tags

\* faulty variant: the request updates the child of that title if the
\* parent has one, and creates it otherwise
CreateChild_Upsert(ns, node) ==
    LET same == { g \in 1..Len(ns) : ns[g].parent = node.parent
                                      /\ ns[g].title = node.title }
    IN  IF same = {} THEN Append(ns, node)
        ELSE [g \in 1..Len(ns) |-> IF g \in same THEN node ELSE ns[g]]

\* POST nodes/{parent_guid}/children/: the service adds one node under the
\* parent and touches no other
CreateChild(ns, node) == Append(ns, node)

Request(method, kind, node, status, auth) ==
    [method |-> method, kind |-> kind, node |-> node, status |-> status,
     auth |-> auth, title |-> "", category |-> "", public |-> FALSE,
     has_tags |-> FALSE, tags |-> <<>>, path |-> <<>>, name |-> "",
     data |-> <<>>, id |-> 0]

\* liveness: the status the constructor's GET got (history)
NoSession ==
    [state |-> "none", headers |-> "", base_url |-> "", data_node_guid |-> 0,
     liveness |-> 0]

NoTemSim ==
    [pdb_keyword |-> "", micrograph_keyword |-> "", sim_dict |-> <<>>, h5_file |-> <<>>]

\* caller: the method post_child_node returns to
NoLocal ==
    [molecule_label |-> "", dataset_label |-> "", tem_sim |-> NoTemSim,
     existing_molecules |-> <<>>, molecule_guid |-> 0, dataset_guid |-> 0,
     caller |-> "", parent_guid |-> 0, title |-> "", has_tags |-> FALSE,
     tags |-> <<>>, file_paths |-> <<>>, i |-> 1, success |-> TRUE]

NoResult == [kind |-> "none", bool |-> FALSE, guid |-> 0, exc |-> ""]
Raised(exc) == [kind |-> "raise", bool |-> FALSE, guid |-> 0, exc |-> exc]
ReturnedGuid(g) == [kind |-> "guid", bool |-> FALSE, guid |-> g, exc |-> ""]
ReturnedBool(b) == [kind |-> "bool", bool |-> b, guid |-> 0, exc |-> ""]

----------------------------------------------------------------------------
(* Initial state *)

InitFrom(trees) ==
    /\ \E ch \in trees :
          nodes = << NewNode(0, "24htr", FALSE, <<>>), NewNode(0, "other", FALSE, <<>>) >>
                  \o [i \in 1..Len(ch) |-> NewNode(ch[i].parent, ch[i].title, FALSE, <<>>)]
    /\ session = [p \in Procs |-> NoSession]
    /\ pc = [p \in Procs |-> "idle"]
    /\ op = [p \in Procs |-> "none"]
    /\ local = [p \in Procs |-> NoLocal]
    /\ calls = [p \in Procs |-> <<>>]
    /\ result = [p \in Procs |-> NoResult]
    /\ datasets = <<>>
    /\ resolved = <<>>
    /\ nruns = [p \in Procs |-> 0]
    /\ handles = [p \in Procs |-> {}]

Init == InitFrom(InitialChildren)

----------------------------------------------------------------------------
(* Steps of a client p *)

\* the running public method ends: it returns or an exception leaves it
Finish(p, res) ==
    /\ pc' = [pc EXCEPT ![p] = "idle"]
    /\ result' = [result EXCEPT ![p] = res]

Log(p, req) == calls' = [calls EXCEPT ![p] = Append(@, req)]

\* TEMUpload(token, data_node_guid): the liveness GET, then the assignment
\* of data_node_guid if it did not raise
Construct(p) ==
    /\ session[p].state = "none"
    /\ \E token \in Tokens, guid \in RootGuids, status \in LivenessOutcomes :
          LET headers == BearerHeader(token)
              failed == status = NoResponse \/ RaiseForStatus(status)
          IN  /\ Log(p, Request("GET", "liveness", 0, status, headers))
              /\ session' = [session EXCEPT ![p] =
                    [state |-> IF failed THEN "failed" ELSE "ready",
                     headers |-> headers, base_url |-> BaseUrl,
                     data_node_guid |-> IF failed THEN 0 ELSE guid,
                     liveness |-> status]]
              /\ result' = [result EXCEPT ![p] =
                    IF status = NoResponse THEN Raised("ConnectionError")
                    ELSE IF failed THEN Raised("HTTPError") ELSE NoResult]
    /\ UNCHANGED <<nodes, pc, op, local, datasets, resolved, nruns, handles>>

CanCall(p) ==
    /\ session[p].state = "ready"
    /\ pc[p] = "idle"
    /\ nruns[p] < MaxRuns

Enter(p, method, first, l) ==
    /\ op' = [op EXCEPT ![p] = method]
    /\ pc' = [pc EXCEPT ![p] = first]
    /\ local' = [local EXCEPT ![p] = l]
    /\ calls' = [calls EXCEPT ![p] = <<>>]
    /\ result' = [result EXCEPT ![p] = NoResult]
    /\ nruns' = [nruns EXCEPT ![p] = @ + 1]
    /\ handles' = [handles EXCEPT ![p] = {}]
    /\ UNCHANGED <<nodes, session, datasets, resolved>>

\* upload_dataset_from_tem(tem_sim), up to its call of get_molecule_guid
CallUploadDataset(p) ==
    /\ CanCall(p)
    /\ \E tem_sim \in TemSims :
          Enter(p, "upload_dataset_from_tem", "get_existing_molecules",
                [NoLocal EXCEPT !.tem_sim = tem_sim,
                                !.dataset_label = DatasetLabel(tem_sim),
                                !.molecule_label = MoleculeLabel(tem_sim)])

\* get_molecule_guid(molecule_label), called by the user
CallGetMoleculeGuid(p) ==
    /\ CanCall(p)
    /\ \E molecule_label \in PdbKeywords :
          Enter(p, "get_molecule_guid", "get_existing_molecules",
                [NoLocal EXCEPT !.molecule_label = molecule_label])

\* post_files(dataset_guid, file_paths), called by the user with the newest
\* node for target
CallPostFiles(p) ==
    /\ CanCall(p)
    /\ \E dataset_guid \in {Len(nodes)}, file_paths \in FileLists :
          Enter(p, "post_files", "post_files",
                [NoLocal EXCEPT !.dataset_guid = dataset_guid,
                                !.file_paths = file_paths])

\* get_molecule_guid has the molecule's GUID: it returns it, to the user or
\* to upload_dataset_from_tem, which goes on to create the dataset node
\* (history: whether it was created, and the ids the listing showed)
MoleculeResolved(p, l, guid, created, listing) ==
    /\ resolved' = Append(resolved,
          [proc |-> p, root |-> session[p].data_node_guid,
           molecule_label |-> l.molecule_label, guid |-> guid,
           created |-> created,
           seen |-> { listing[k].id : k \in DOMAIN listing }])
    /\ IF op[p] = "get_molecule_guid"
       THEN /\ Finish(p, ReturnedGuid(guid))
            /\ local' = [local EXCEPT ![p] = l]
       ELSE LET m == [l EXCEPT !.molecule_guid = guid]
            IN  /\ local' = [local EXCEPT ![p] =
                      [m EXCEPT !.caller = "upload_dataset_from_tem",
                                !.parent_guid = DatasetParent(session[p], m),
                                !.title = m.dataset_label,
                                !.has_tags = TRUE,
                                !.tags = generate_tags_from_tem(m.tem_sim)]]
                /\ pc' = [pc EXCEPT ![p] = "post_child_node"]
                /\ UNCHANGED result

\* get_existing_molecules: GET the children of the data node; then the test
\* of get_molecule_guid on the mapping it returns
GetExistingMolecules(p) ==
    /\ pc[p] = "get_existing_molecules"
    /\ \E status \in ListOutcomes :
          LET sess == session[p]
              l == local[p]
              children == ListChildren(nodes, sess.data_node_guid, Len(nodes))
              existing_molecules == DictComprehension(children)
              m == [l EXCEPT !.existing_molecules = existing_molecules]
          IN  /\ Log(p, [Request("GET", "list", sess.data_node_guid, status, RequestHeaders(sess))
                           EXCEPT !.data = IF HasData(status) THEN children ELSE <<>>])
              /\ IF status = NoResponse
                 THEN Finish(p, Raised("ConnectionError")) /\ UNCHANGED <<local, resolved>>
                 ELSE IF RaiseForStatus(status)
                 THEN Finish(p, Raised("HTTPError")) /\ UNCHANGED <<local, resolved>>
                 ELSE IF ~HasData(status)
                 THEN Finish(p, Raised("JSONDecodeError")) /\ UNCHANGED <<local, resolved>>
                 ELSE IF LabelMissing(existing_molecules, l.molecule_label)
                 THEN /\ local' = [local EXCEPT ![p] =
                            [m EXCEPT !.caller = "get_molecule_guid",
                                      !.parent_guid = MoleculeParent(sess),
                                      !.title = l.molecule_label,
                                      !.has_tags = FALSE,
                                      !.tags = <<>>]]
                      /\ pc' = [pc EXCEPT ![p] = "post_child_node"]
                      /\ UNCHANGED <<result, resolved>>
                 ELSE MoleculeResolved(p, m, existing_molecules[l.molecule_label],
                                       FALSE, children)
    /\ UNCHANGED <<nodes, session, op, datasets, nruns, handles>>

\* post_child_node(parent_guid, title, tags): POST the new child, return
\* the id of the response to the caller
PostChildNode(p) ==
    /\ pc[p] = "post_child_node"
    /\ \E status \in CreateOutcomes :
          LET sess == session[p]
              l == local[p]
              req == [Request("POST", "create", l.parent_guid, status, RequestHeaders(sess))
                        EXCEPT !.title = l.title, !.category = "data",
                               !.public = TRUE,
                               !.has_tags = CarriesTags(l.has_tags, l.tags),
                               !.tags = l.tags,
                               !.id = IF HasData(status) THEN Len(nodes) + 1 ELSE 0]
              guid == req.id
          IN  /\ Log(p, req)
              /\ nodes' = IF status # NoResponse /\ ServerCreates(status)
                          THEN CreateChild(nodes, NewNode(l.parent_guid, l.title, req.has_tags, l.tags))
                          ELSE nodes
              /\ IF status = NoResponse
                 THEN Finish(p, Raised("ConnectionError")) /\ UNCHANGED <<local, datasets, resolved>>
                 ELSE IF RaiseForStatus(status)
                 THEN Finish(p, Raised("HTTPError")) /\ UNCHANGED <<local, datasets, resolved>>
                 ELSE IF ~HasData(status)
                 THEN Finish(p, Raised("JSONDecodeError")) /\ UNCHANGED <<local, datasets, resolved>>
                 ELSE IF l.caller = "get_molecule_guid"
                 THEN MoleculeResolved(p, l, guid, TRUE, calls[p][1].data)
                      /\ UNCHANGED datasets
                 ELSE /\ local' = [local EXCEPT ![p] =
                            [l EXCEPT !.dataset_guid = guid,
                                      !.file_paths = upload_file_paths(l.tem_sim),
                                      !.i = 1,
                                      !.success = TRUE]]
                      /\ pc' = [pc EXCEPT ![p] = "post_files"]
                      /\ datasets' = Append(datasets,
                            [proc |-> p, root |-> sess.data_node_guid,
                             molecule_label |-> l.molecule_label,
                             molecule_guid |-> l.molecule_guid,
                             dataset_label |-> l.dataset_label,
                             dataset_guid |-> guid])
                      /\ UNCHANGED <<result, resolved>>
    /\ UNCHANGED <<session, op, nruns, handles>>

\* one iteration of the loop of post_files: open the file, PUT it, test
\* the status. Binding the new dictionary to "files" drops the last
\* reference to the file of the iteration before
PostFilesIteration(p) ==
    /\ pc[p] = "post_files"
    /\ local[p].i <= Len(local[p].file_paths)
    /\ LET sess == session[p]
           l == local[p]
           file_path == l.file_paths[l.i]
       IN  \/ \* open(file_path, "rb") raises
              /\ Finish(p, Raised("FileNotFoundError"))
              \* the traceback keeps the frame, and "files" the file before
              /\ \E kept \in StillOpen(handles[p]) :
                    handles' = [handles EXCEPT ![p] =
                                  kept \cup (handles[p] \cap {l.i - 1})]
              /\ UNCHANGED <<calls, local>>
           \/ \E status \in UploadOutcomes, kept \in StillOpen(handles[p]) :
                 /\ handles' = [handles EXCEPT ![p] = OpenFile(kept, l.i)]
                 /\ Log(p, [Request("PUT", "upload", l.dataset_guid, status, RequestHeaders(sess))
                              EXCEPT !.path = file_path, !.name = PathName(file_path)])
                 /\ IF status = NoResponse
                    THEN Finish(p, Raised("ConnectionError")) /\ UNCHANGED local
                    ELSE /\ local' = [local EXCEPT ![p] =
                               [l EXCEPT !.success = IF UploadFailed(status) THEN FALSE ELSE @,
                                         !.i = LoopNext(l.i, Len(l.file_paths), status)]]
                         /\ UNCHANGED <<pc, result>>
    /\ UNCHANGED <<nodes, session, op, datasets, resolved, nruns>>

\* the loop of post_files is over: return success; the frame goes, and
\* with it the last reference to the file of the last iteration
PostFilesReturn(p) ==
    /\ pc[p] = "post_files"
    /\ local[p].i > Len(local[p].file_paths)
    /\ Finish(p, ReturnedBool(local[p].success))
    /\ \E kept \in StillOpen(handles[p]) :
          handles' = [handles EXCEPT ![p] = kept]
    /\ UNCHANGED <<nodes, session, op, local, calls, datasets, resolved, nruns>>

Step(p) ==
    \/ Construct(p)
    \/ CallUploadDataset(p)
    \/ CallGetMoleculeGuid(p)
    \/ CallPostFiles(p)
    \/ GetExistingMolecules(p)
    \/ PostChildNode(p)
    \/ PostFilesIteration(p)
    \/ PostFilesReturn(p)

Next == \E p \in SeqProcs : Step(p)

Spec == Init /\ [][Next]_vars

\* two clients, each a process of its own, that resolve molecule labels:
\* their requests interleave in any order
NextConcurrent ==
    \E p \in Procs :
        \/ Construct(p)
        \/ CallGetMoleculeGuid(p)
        \/ GetExistingMolecules(p)
        \/ PostChildNode(p)

\* they start from one tree: data node 1 holds molecule "1ABC"
ConcurrentChildren == { << [parent |-> 1, title |-> "1ABC"] >> }

InitConcurrent == InitFrom(ConcurrentChildren)

SpecConcurrent == InitConcurrent /\ [][NextConcurrent]_vars

----------------------------------------------------------------------------
(* What the properties below read from the state *)

Is2xx(status) == status \in 200..299
IsErrorStatus(status) == status \in 400..599

Uploads(log) == SelectSeq(log, LAMBDA r : r.kind = "upload")
Creates(log) == SelectSeq(log, LAMBDA r : r.kind = "create")

TitlesOf(data) == { data[k].title : k \in DOMAIN data }
ChildrenOf(g) == { n \in 1..Len(nodes) : nodes[n].parent = g }

\* the public call of p began with a listing that the service answered
Listed(p) ==
    /\ calls[p] # <<>>
    /\ calls[p][1].kind = "list"
    /\ Is2xx(calls[p][1].status)

Returned(p) == pc[p] = "idle" /\ result[p].kind \in {"guid", "bool"}

----------------------------------------------------------------------------
(* C1: get_molecule_guid(L), when the listing of the data node shows a     *)
(* child titled L, returns the id of that child after the listing alone:   *)
(* no POST is issued and the step leaves the tree as it was; and all the   *)
(* calls for one label under one data node return the same id.             *)

C1_Lookup ==
    \A p \in Procs :
        (/\ op[p] = "get_molecule_guid"
         /\ Listed(p)
         /\ local[p].molecule_label \in TitlesOf(calls[p][1].data))
        => /\ Len(calls[p]) = 1
           /\ Returned(p)
           /\ result[p].kind = "guid"
           /\ \E k \in DOMAIN calls[p][1].data :
                 /\ calls[p][1].data[k].title = local[p].molecule_label
                 /\ calls[p][1].data[k].id = result[p].guid
           /\ nodes[result[p].guid].title = local[p].molecule_label
           /\ nodes[result[p].guid].parent = session[p].data_node_guid

C1_SameId ==
    \A i, j \in DOMAIN resolved :
        (/\ resolved[i].root = resolved[j].root
         /\ resolved[i].molecule_label = resolved[j].molecule_label)
        => resolved[i].guid = resolved[j].guid

C1_TreeUnchanged ==
    \A p \in Procs :
        (/\ op'[p] = "get_molecule_guid"
         /\ calls'[p] # calls[p]
         /\ Len(calls'[p]) = 1
         /\ Is2xx(calls'[p][1].status)
         /\ local'[p].molecule_label \in TitlesOf(calls'[p][1].data))
        => nodes' = nodes

C1_Idempotent == [](C1_Lookup /\ C1_SameId) /\ [][C1_TreeUnchanged]_vars

\* two calls in sequence for one label, both answered from the listing
C1_Witness ==
    /\ op[1] = "get_molecule_guid"
    /\ Returned(1)
    /\ Len(calls[1]) = 1
    /\ Len(resolved) = 2
    /\ resolved[1].molecule_label = resolved[2].molecule_label
    /\ resolved[1].guid = result[1].guid
    /\ resolved[1].guid \in 1..3

----------------------------------------------------------------------------
(* C2: get_molecule_guid(L), when the listing of the data node shows no    *)
(* child titled L, issues exactly one creation call, a POST of a child     *)
(* titled L under the data node that was listed; when the service accepts  *)
(* it, the value returned is the id of the response, which is the id of    *)
(* the new child.                                                          *)

C2_CreateOnce ==
    \A p \in Procs :
        (/\ op[p] = "get_molecule_guid"
         /\ Listed(p)
         /\ local[p].molecule_label \notin TitlesOf(calls[p][1].data))
        => /\ Len(calls[p]) \in {1, 2}
           /\ Len(calls[p]) = 1 <=> pc[p] = "post_child_node"
           /\ Len(calls[p]) = 2 =>
                 /\ pc[p] = "idle"
                 /\ calls[p][2].kind = "create"
                 /\ calls[p][2].method = "POST"
                 /\ calls[p][2].node = calls[p][1].node
                 /\ calls[p][2].title = local[p].molecule_label
                 /\ Is2xx(calls[p][2].status) =>
                       /\ result[p].kind = "guid"
                       /\ result[p].guid = calls[p][2].id
                       /\ result[p].guid \in 1..Len(nodes)
                       /\ \A k \in DOMAIN calls[p][1].data :
                             calls[p][1].data[k].id # result[p].guid
                       /\ nodes[result[p].guid].title = local[p].molecule_label
                       /\ nodes[result[p].guid].parent = calls[p][1].node

\* a label absent from the listing of data node 2, created there
C2_Witness ==
    /\ op[1] = "get_molecule_guid"
    /\ Returned(1)
    /\ Len(calls[1]) = 2
    /\ calls[1][1].node = 2
    /\ calls[1][2].status = 201
    /\ nodes[result[1].guid].parent = 2

----------------------------------------------------------------------------
(* C3: post_files returns true exactly when every upload it attempted got  *)
(* status 201; any other status, 200 included, makes it return false; an   *)
(* empty list gives true.                                                  *)

C3_AllCreated ==
    \A p \in Procs :
        (pc[p] = "idle" /\ result[p].kind = "bool")
        => /\ Len(Uploads(calls[p])) = Len(local[p].file_paths)
           /\ result[p].bool =
                 (\A k \in DOMAIN Uploads(calls[p]) : Uploads(calls[p])[k].status = 201)

\* two files, the first created, the second answered 200: false
C3_Witness ==
    /\ op[1] = "post_files"
    /\ pc[1] = "idle"
    /\ result[1].kind = "bool"
    /\ Len(Uploads(calls[1])) = 2
    /\ Uploads(calls[1])[1].status = 201
    /\ Uploads(calls[1])[2].status = 200
    /\ result[1].bool = FALSE

----------------------------------------------------------------------------
(* C4: post_files does not short-circuit.  While the loop runs, the PUT    *)
(* requests issued so far are those of the paths before the loop index,    *)
(* in list order, each to the target node and under the file's base name;  *)
(* when it returns, one PUT per path was issued, whatever the statuses;    *)
(* and past the last path the loop can only return.                        *)

C4_NoShortCircuit ==
    \A p \in Procs :
        (pc[p] = "post_files" \/ (pc[p] = "idle" /\ result[p].kind = "bool"))
        => LET l == local[p]
               puts == Uploads(calls[p])
           IN  /\ l.i \in 1..(Len(l.file_paths) + 1)
               /\ Len(puts) = l.i - 1
               /\ \A k \in DOMAIN puts :
                     /\ puts[k].method = "PUT"
                     /\ puts[k].path = l.file_paths[k]
                     /\ puts[k].name = l.file_paths[k][Len(l.file_paths[k])]
                     /\ puts[k].node = l.dataset_guid
               /\ Returned(p) => Len(puts) = Len(l.file_paths)
               /\ (pc[p] = "post_files" /\ l.i > Len(l.file_paths))
                     => (ENABLED PostFilesReturn(p)) /\ ~(ENABLED PostFilesIteration(p))

\* two paths, the first upload refused, the second still attempted
C4_Witness ==
    /\ op[1] = "post_files"
    /\ Returned(1)
    /\ Len(local[1].file_paths) = 2
    /\ Len(Uploads(calls[1])) = 2
    /\ Uploads(calls[1])[1].status = 404
    /\ Uploads(calls[1])[2].path = local[1].file_paths[2]

----------------------------------------------------------------------------
(* C5: in upload_dataset_from_tem a listing or a creation call that is not *)
(* answered with a 2xx status is the last request of the run: the run has  *)
(* ended, with an exception and not a boolean, and for a 4xx or 5xx status *)
(* the exception is the HTTPError of raise_for_status.  So a failed        *)
(* listing is followed by no creation and no upload, a failed molecule     *)
(* creation by no dataset creation and no upload, a failed dataset         *)
(* creation by no upload.                                                  *)

C5_ErrorsHalt ==
    \A p \in Procs :
        op[p] = "upload_dataset_from_tem" =>
            \A k \in DOMAIN calls[p] :
                (calls[p][k].kind \in {"list", "create"} /\ ~Is2xx(calls[p][k].status))
                => /\ k = Len(calls[p])
                   /\ pc[p] = "idle"
                   /\ result[p].kind = "raise"
                   /\ IsErrorStatus(calls[p][k].status) => result[p].exc = "HTTPError"

\* the molecule creation is refused: nothing follows it
C5_Witness ==
    /\ op[1] = "upload_dataset_from_tem"
    /\ Len(calls[1]) = 2
    /\ calls[1][2].kind = "create"
    /\ calls[1][2].node = session[1].data_node_guid
    /\ calls[1][2].status = 403
    /\ result[1].kind = "raise"

----------------------------------------------------------------------------
(* C6: the dataset node is always freshly minted.  A run of                *)
(* upload_dataset_from_tem lists nothing but the data node and issues at   *)
(* most one creation call under the molecule node, exactly one once it     *)
(* uploads or returns; the ids the runs got for their dataset nodes are    *)
(* pairwise distinct, each the id of a child of the run's molecule node    *)
(* with the run's dataset title, so that a molecule node has as many       *)
(* children with one title as runs created a dataset of that title under   *)
(* it; and a run uploads only into the dataset node it created itself.     *)

DatasetRuns(molecule_guid, dataset_label) ==
    { k \in DOMAIN datasets :
        /\ datasets[k].molecule_guid = molecule_guid
        /\ datasets[k].dataset_label = dataset_label }

C6_FreshDataset ==
    /\ \A i, j \in DOMAIN datasets :
          i # j => datasets[i].dataset_guid # datasets[j].dataset_guid
    /\ \A k \in DOMAIN datasets :
          LET d == datasets[k]
          IN  /\ d.dataset_guid \in 1..Len(nodes)
              /\ nodes[d.dataset_guid].parent = d.molecule_guid
              /\ nodes[d.dataset_guid].title = d.dataset_label
              /\ Cardinality({ n \in ChildrenOf(d.molecule_guid) :
                                 nodes[n].title = d.dataset_label })
                 = Cardinality(DatasetRuns(d.molecule_guid, d.dataset_label))
    /\ \A p \in Procs :
          op[p] = "upload_dataset_from_tem" =>
              LET l == local[p]
                  log == calls[p]
                  under == { k \in DOMAIN log :
                               log[k].kind = "create" /\ log[k].node = l.molecule_guid }
              IN  /\ \A k \in DOMAIN log :
                        log[k].kind = "list" => log[k].node = session[p].data_node_guid
                  /\ Cardinality(under) <= 1
                  /\ (l.molecule_guid # 0 /\ pc[p] # "post_child_node") =>
                        Cardinality(under) = 1
                  /\ (pc[p] = "post_files" \/ Returned(p)) =>
                        /\ Cardinality(under) = 1
                        /\ datasets # <<>>
                        /\ datasets[Len(datasets)].dataset_guid = l.dataset_guid
                        /\ \A k \in DOMAIN log :
                              log[k].kind = "upload" => log[k].node = l.dataset_guid

\* the second run with one record: a second dataset node with the title of
\* the first, under the same molecule node
C6_Witness ==
    /\ op[1] = "upload_dataset_from_tem"
    /\ Returned(1)
    /\ result[1].bool
    /\ Len(datasets) = 2
    /\ datasets[1].molecule_guid = datasets[2].molecule_guid
    /\ datasets[1].dataset_label = datasets[2].dataset_label
    /\ datasets[1].dataset_guid # datasets[2].dataset_guid

----------------------------------------------------------------------------
(* C7: initialization fails closed.  As claimed: whenever the liveness GET *)
(* of the constructor is not answered with a 2xx status, construction      *)
(* fails, the liveness GET is the only request the client ever issues and  *)
(* no method runs.  raise_for_status raises for 4xx and 5xx only, so the   *)
(* claim holds of those statuses and fails for a status such as 304.       *)

FailedClosed(p) ==
    /\ session[p].state = "failed"
    /\ session[p].data_node_guid = 0
    /\ result[p].kind = "raise"
    /\ Len(calls[p]) = 1
    /\ calls[p][1].kind = "liveness"
    /\ calls[p][1].method = "GET"
    /\ nruns[p] = 0
    /\ pc[p] = "idle"
    /\ op[p] = "none"

\* the claim as stated: any status that is not 2xx
C7_Original ==
    \A p \in Procs :
        (session[p].state # "none" /\ ~Is2xx(session[p].liveness)) => FailedClosed(p)

\* the claim as amended: any 4xx or 5xx status
C7_FailsClosed ==
    \A p \in Procs :
        (session[p].state # "none" /\ IsErrorStatus(session[p].liveness)) => FailedClosed(p)

\* the liveness GET was answered 401
C7_Witness ==
    /\ session[1].liveness = 401
    /\ session[1].state = "failed"
    /\ Len(calls[1]) = 1

----------------------------------------------------------------------------
(* C8: molecule-level deduplication in one sequential process.  The        *)
(* children of a data node keep pairwise distinct titles, and every        *)
(* dataset node a run created for a molecule label is a child of the one   *)
(* child of the run's data node that has that label for title.             *)

C8_MoleculeDedup ==
    /\ \A g \in RootGuids : \A m, n \in ChildrenOf(g) :
          nodes[m].title = nodes[n].title => m = n
    /\ \A k \in DOMAIN datasets :
          LET d == datasets[k]
          IN  /\ d.molecule_guid \in ChildrenOf(d.root)
              /\ nodes[d.molecule_guid].title = d.molecule_label
              /\ d.dataset_guid \in ChildrenOf(d.molecule_guid)
    /\ \A i, j \in DOMAIN datasets :
          (/\ datasets[i].root = datasets[j].root
           /\ datasets[i].molecule_label = datasets[j].molecule_label)
          => datasets[i].molecule_guid = datasets[j].molecule_guid

\* two runs for one label that was not there at first: the first creates
\* the molecule node, the second finds it
C8_Witness ==
    /\ Len(nodes) = 5
    /\ Len(datasets) = 2
    /\ datasets[1].molecule_label = datasets[2].molecule_label
    /\ datasets[1].molecule_guid = 3
    /\ datasets[2].molecule_guid = 3
    /\ Returned(1)

----------------------------------------------------------------------------
(* C9: the requests of a run of upload_dataset_from_tem, in order: the     *)
(* listing of the data node; a creation under the data node exactly when   *)
(* the label is not in the listing; one creation, of the dataset title,    *)
(* under the molecule id just resolved; one upload, of the h5 path, into   *)
(* the id the dataset creation returned.  Each request is issued only      *)
(* after the one before it was answered 2xx, and the run returns a         *)
(* boolean only after the upload, true exactly when its status is 201.     *)

C9_CallOrder ==
    \A p \in Procs :
        op[p] = "upload_dataset_from_tem" =>
            LET l == local[p]
                log == calls[p]
                n == Len(log)
                found == n >= 1 /\ l.molecule_label \in TitlesOf(log[1].data)
                dpos == IF found THEN 2 ELSE 3
            IN  /\ n <= dpos + 1
                /\ n = 0 => pc[p] = "get_existing_molecules"
                /\ n >= 1 =>
                      /\ log[1].kind = "list"
                      /\ log[1].node = session[p].data_node_guid
                /\ \A k \in 2..n : Is2xx(log[k - 1].status)
                /\ (n >= 2 /\ ~found) =>
                      /\ log[2].kind = "create"
                      /\ log[2].node = session[p].data_node_guid
                      /\ log[2].title = l.molecule_label
                /\ n >= dpos =>
                      /\ log[dpos].kind = "create"
                      /\ log[dpos].title = l.dataset_label
                      /\ IF found
                         THEN \E k \in DOMAIN log[1].data :
                                 /\ log[1].data[k].title = l.molecule_label
                                 /\ log[1].data[k].id = log[dpos].node
                         ELSE log[dpos].node = log[2].id
                /\ n = dpos + 1 =>
                      /\ log[n].kind = "upload"
                      /\ log[n].path = l.tem_sim.h5_file
                      /\ log[n].node = log[dpos].id
                /\ result[p].kind = "bool" =>
                      /\ n = dpos + 1
                      /\ result[p].bool = (log[n].status = 201)
                /\ (pc[p] = "idle" /\ n = dpos + 1 /\ log[n].status = 201) =>
                      (result[p].kind = "bool" /\ result[p].bool)

\* a full run that had to create the molecule node, its upload answered 200
C9_Witness ==
    /\ op[1] = "upload_dataset_from_tem"
    /\ Returned(1)
    /\ Len(calls[1]) = 4
    /\ calls[1][2].kind = "create"
    /\ calls[1][3].node = calls[1][2].id
    /\ calls[1][4].node = calls[1][3].id
    /\ calls[1][4].status = 200
    /\ ~result[1].bool

----------------------------------------------------------------------------
(* C10: in a run of upload_dataset_from_tem the label resolved, and the    *)
(* title of a creation under the data node, is the molecule keyword alone; *)
(* the title of the creation under the molecule node is the molecule       *)
(* keyword followed by the micrograph keyword with nothing between:        *)
(* "1ABC" and "series7" give "1ABCseries7".                                *)

C10_Labels ==
    \A p \in Procs :
        op[p] = "upload_dataset_from_tem" =>
            LET ts == local[p].tem_sim
                log == calls[p]
            IN  /\ local[p].molecule_label = ts.pdb_keyword
                /\ \A k \in DOMAIN resolved :
                      (resolved[k].proc = p /\ k = Len(resolved) /\ local[p].molecule_guid # 0)
                      => resolved[k].molecule_label = ts.pdb_keyword
                /\ \A k \in DOMAIN log :
                      log[k].kind = "create" =>
                          IF log[k].node = session[p].data_node_guid
                          THEN log[k].title = ts.pdb_keyword
                          ELSE /\ log[k].title = ts.pdb_keyword \o ts.micrograph_keyword
                               /\ Len(log[k].title) =
                                     Len(ts.pdb_keyword) + Len(ts.micrograph_keyword)
                               /\ (ts.pdb_keyword = "1ABC" /\ ts.micrograph_keyword = "series7")
                                     => log[k].title = "1ABCseries7"

\* the dataset creation of the record ("1ABC", "series7")
C10_Witness ==
    /\ op[1] = "upload_dataset_from_tem"
    /\ local[1].tem_sim.pdb_keyword = "1ABC"
    /\ local[1].tem_sim.micrograph_keyword = "series7"
    /\ \E k \in DOMAIN calls[1] :
          /\ calls[1][k].kind = "create"
          /\ calls[1][k].node # session[1].data_node_guid
          /\ calls[1][k].title = "1ABCseries7"

----------------------------------------------------------------------------
(* C11: the tags of a run of upload_dataset_from_tem are the values of the *)
(* record's parameter mapping, one per item and in insertion order, with   *)
(* equal values kept: {a: 1, b: 2} gives [1, 2], {voltage: 300, dose: 50}  *)
(* gives [300, 50]; and the dataset creation call carries exactly them.    *)

ValuesOf(sim_dict) == [k \in 1..Len(sim_dict) |-> sim_dict[k][2]]

C11_Tags ==
    \A p \in Procs :
        op[p] = "upload_dataset_from_tem" =>
            LET sim_dict == local[p].tem_sim.sim_dict
                log == calls[p]
            IN  /\ local[p].molecule_guid # 0 =>
                      /\ Len(local[p].tags) = Len(sim_dict)
                      /\ \A k \in 1..Len(sim_dict) : local[p].tags[k] = sim_dict[k][2]
                      /\ sim_dict = << <<"a", 1>>, <<"b", 2>> >>
                            => local[p].tags = <<1, 2>>
                      /\ sim_dict = << <<"voltage", 300>>, <<"dose", 50>> >>
                            => local[p].tags = <<300, 50>>
                      /\ sim_dict = << <<"a", 1>>, <<"b", 1>> >>
                            => local[p].tags = <<1, 1>>
                /\ \A k \in DOMAIN log :
                      (log[k].kind = "create" /\ log[k].node # session[p].data_node_guid)
                      => /\ log[k].has_tags
                         /\ log[k].tags = ValuesOf(sim_dict)

\* the dataset creation of a record with parameters {a: 1, b: 2}
C11_Witness ==
    /\ op[1] = "upload_dataset_from_tem"
    /\ local[1].tem_sim.sim_dict = << <<"a", 1>>, <<"b", 2>> >>
    /\ \E k \in DOMAIN calls[1] :
          /\ calls[1][k].kind = "create"
          /\ calls[1][k].node = local[1].molecule_guid
          /\ calls[1][k].tags = <<1, 2>>

----------------------------------------------------------------------------
(* C12: two clients that run get_molecule_guid concurrently for a label    *)
(* that is not there can both list before either creates and both create,  *)
(* which leaves two children of the data node with one title; and that is  *)
(* the only way to such a pair: both nodes were created, by different      *)
(* clients, and the listing on which each creation rested showed neither   *)
(* of them.                                                                *)

CreatedBy(n) ==
    { k \in DOMAIN resolved : resolved[k].guid = n /\ resolved[k].created }

C12_DuplicatesOnlyByRace ==
    \A g \in RootGuids : \A m, n \in ChildrenOf(g) :
        (m < n /\ nodes[m].title = nodes[n].title)
        => \E i \in CreatedBy(m), j \in CreatedBy(n) :
              /\ resolved[i].proc # resolved[j].proc
              /\ resolved[i].molecule_label = nodes[m].title
              /\ resolved[j].molecule_label = nodes[n].title
              /\ m \notin resolved[i].seen /\ n \notin resolved[i].seen
              /\ m \notin resolved[j].seen /\ n \notin resolved[j].seen

\* both clients created a child titled "2XYZ" under data node 1
C12_Witness ==
    /\ \E m, n \in ChildrenOf(1) :
          /\ m < n
          /\ nodes[m].title = "2XYZ"
          /\ nodes[n].title = "2XYZ"
    /\ Returned(1)
    /\ Returned(2)
    /\ result[1].guid # result[2].guid
    /\ Len(calls[1]) = 2
    /\ Len(calls[2]) = 2

----------------------------------------------------------------------------
(* C13: a failure of one file is never fatal to post_files: whatever the   *)
(* outcome of an attempt (any status, a file that cannot be opened, no     *)
(* response), the remaining files are attempted and post_files ends by     *)
(* returning a boolean. The code does not do this: open() and requests.put *)
(* raise out of the loop.                                                  *)

\* client p is idle after a run that entered the loop of post_files
PostFilesOver(p) ==
    /\ pc[p] = "idle"
    /\ op[p] \in {"post_files", "upload_dataset_from_tem"}
    /\ local[p].dataset_guid # 0

C13_NeverFatal ==
    \A p \in Procs :
        PostFilesOver(p)
        => /\ result[p].kind = "bool"
           /\ Len(Uploads(calls[p])) = Len(local[p].file_paths)

----------------------------------------------------------------------------
(* C14: files opened for upload are released with scoped acquisition: at   *)
(* the start of every iteration of the loop of post_files after the first, *)
(* and once post_files has returned or failed, no file of an earlier       *)
(* iteration is still open, so that at most one file is open at any time.  *)
(* The code opens each file with a bare open() and never closes it.        *)

C14_ScopedRelease ==
    \A p \in Procs :
        /\ (pc[p] = "post_files" /\ local[p].i > 1) => handles[p] = {}
        /\ PostFilesOver(p) => handles[p] = {}
        /\ Cardinality(handles[p]) <= 1

----------------------------------------------------------------------------
(* C15: the remote tree only grows. No step deletes, renames, re-parents   *)
(* or re-tags a node that exists, and nothing is rolled back: every node   *)
(* a run created is in the tree as created however the run went on, so a   *)
(* molecule node stays when the dataset creation or the upload fails, and  *)
(* a dataset node stays when its upload fails.                             *)

C15_Kept ==
    /\ Len(nodes') >= Len(nodes)
    /\ \A g \in 1..Len(nodes) : nodes'[g] = nodes[g]

C15_Remains ==
    /\ \A p \in Procs : \A k \in DOMAIN calls[p] :
          LET r == calls[p][k]
          IN  (r.kind = "create" /\ Is2xx(r.status))
              => /\ r.id \in 1..Len(nodes)
                 /\ nodes[r.id] = NewNode(r.node, r.title, r.has_tags, r.tags)
    /\ \A k \in DOMAIN resolved :
          /\ resolved[k].guid \in 1..Len(nodes)
          /\ nodes[resolved[k].guid].title = resolved[k].molecule_label
          /\ nodes[resolved[k].guid].parent = resolved[k].root
    /\ \A k \in DOMAIN datasets :
          /\ datasets[k].dataset_guid \in 1..Len(nodes)
          /\ nodes[datasets[k].dataset_guid].title = datasets[k].dataset_label
          /\ nodes[datasets[k].dataset_guid].parent = datasets[k].molecule_guid

C15_TreeOnlyGrows == [](C15_Remains) /\ [][C15_Kept]_vars

\* a run created the molecule node and the dataset node and its upload
\* failed; an earlier run created a molecule node and its dataset creation
\* failed
C15_Witness ==
    /\ op[1] = "upload_dataset_from_tem"
    /\ pc[1] = "idle"
    /\ Len(Creates(calls[1])) = 2
    /\ \A k \in 1..2 : Is2xx(Creates(calls[1])[k].status)
    /\ \/ result[1].kind = "raise"
       \/ result[1].kind = "bool" /\ ~result[1].bool
    /\ nodes[Creates(calls[1])[1].id].title = local[1].molecule_label
    /\ nodes[Creates(calls[1])[2].id].title = local[1].dataset_label
    /\ \E k \in DOMAIN resolved :
          /\ resolved[k].created
          /\ \A d \in DOMAIN datasets :
                datasets[d].molecule_guid # resolved[k].guid

----------------------------------------------------------------------------
(* C16: when the listing of the data node holds several nodes of one       *)
(* title, the mapping get_existing_molecules builds has one entry for      *)
(* each distinct title, which is the id of the last node of that title in  *)
(* the listing, and get_molecule_guid for that title returns that last id  *)
(* and creates no node.                                                    *)

\* the positions of title t in a listing
PositionsOf(data, t) == { k \in DOMAIN data : data[k].title = t }

LastIdOf(data, t) ==
    data[CHOOSE k \in PositionsOf(data, t) :
            \A j \in PositionsOf(data, t) : j <= k].id

\* client p ran get_existing_molecules in this call and it returned
Mapped(p) ==
    /\ op[p] = "get_molecule_guid"
    /\ Listed(p)

C16_LastWins ==
    \A p \in Procs :
        Mapped(p)
        => LET data == calls[p][1].data
               existing_molecules == local[p].existing_molecules
               label == local[p].molecule_label
           IN  /\ DOMAIN existing_molecules = TitlesOf(data)
               /\ \A t \in TitlesOf(data) :
                     existing_molecules[t] = LastIdOf(data, t)
               /\ label \in TitlesOf(data)
                  => /\ pc[p] = "idle"
                     /\ result[p] = ReturnedGuid(LastIdOf(data, label))
                     /\ Creates(calls[p]) = <<>>

\* client 1 asked for a title the listing held twice and got the later id
C16_Witness ==
    /\ Mapped(1)
    /\ Cardinality(PositionsOf(calls[1][1].data, local[1].molecule_label)) = 2
    /\ Returned(1)
    /\ \E k \in PositionsOf(calls[1][1].data, local[1].molecule_label) :
          calls[1][1].data[k].id < result[1].guid

----------------------------------------------------------------------------
(* C17: the session does not change once constructed: no step of a method, *)
(* ended well or not, changes the headers, the base endpoint or the data   *)
(* node id; and every request, from the liveness GET to the uploads,       *)
(* carries the one header "Bearer <token>" of the token the constructor    *)
(* was given, the listings going to the configured data node.              *)

C17_SessionKept ==
    \A p \in Procs : session[p].state # "none" => session'[p] = session[p]

C17_SameHeader ==
    \A p \in Procs : \A k \in DOMAIN calls[p] :
        /\ calls[p][k].auth \in { "Bearer " \o token : token \in Tokens }
        /\ calls[p][k].auth = session[p].headers
        /\ session[p].base_url = BaseUrl
        /\ calls[p][k].kind = "list" => calls[p][k].node = session[p].data_node_guid

C17_Immutable == [](C17_SameHeader) /\ [][C17_SessionKept]_vars

\* the second run of client 1 listed, created and uploaded, and failed
C17_Witness ==
    /\ nruns[1] = 2
    /\ op[1] = "upload_dataset_from_tem"
    /\ pc[1] = "idle"
    /\ result[1].kind = "raise"
    /\ Uploads(calls[1]) # <<>>
    /\ session[1].state = "ready"
    /\ session[1].headers = "Bearer tok"
    /\ session[1].data_node_guid = 2

----------------------------------------------------------------------------
(* C18: every creation request carries the given title, category "data"    *)
(* and public true, and a tags attribute exactly when tags were given, an  *)
(* empty list counting as given: the molecule creation of                  *)
(* get_molecule_guid never carries tags, the dataset creation always       *)
(* carries the list of generated tags, also when the record's parameter    *)
(* mapping is empty.                                                       *)

\* the first creation of the call client p is in is the molecule's: the
\* listing did not show the label
MoleculeCreated(p) ==
    /\ Listed(p)
    /\ local[p].molecule_label \notin TitlesOf(calls[p][1].data)

C18_Template ==
    \A p \in Procs :
        LET creates == Creates(calls[p])
        IN  \A k \in DOMAIN creates :
               /\ creates[k].category = "data"
               /\ creates[k].public = TRUE
               /\ creates[k].method = "POST"
               /\ IF k = 1 /\ MoleculeCreated(p)
                  THEN /\ creates[k].title = local[p].molecule_label
                       /\ ~creates[k].has_tags
                  ELSE /\ op[p] = "upload_dataset_from_tem"
                       /\ creates[k].title = local[p].dataset_label
                       /\ creates[k].has_tags
                       /\ creates[k].tags = ValuesOf(local[p].tem_sim.sim_dict)

\* a record with no parameters: the molecule was created without tags, the
\* dataset with the empty list of tags
C18_Witness ==
    /\ op[1] = "upload_dataset_from_tem"
    /\ local[1].tem_sim.sim_dict = <<>>
    /\ MoleculeCreated(1)
    /\ Len(Creates(calls[1])) = 2
    /\ ~Creates(calls[1])[1].has_tags
    /\ Creates(calls[1])[2].has_tags
    /\ Creates(calls[1])[2].tags = <<>>
    /\ Is2xx(Creates(calls[1])[2].status)
    /\ nodes[Creates(calls[1])[2].id].has_tags

====
